---- MODULE Spec2Model ----
(***************************************************************************)
(* Model of the asynchronous environment-provisioning orchestrator of      *)
(* app.py: the job store JOBS, the submission handler odoo_execute, the    *)
(* status poll odoo_job_status and the background worker                   *)
(* _create_real_environment, one worker thread per accepted job, running   *)
(* against a container backend (networks, containers) and the persisted    *)
(* environment history.                                                    *)
(***************************************************************************)
EXTENDS Integers, Sequences, FiniteSets, TLC

VARIABLES
    JOBS,                 \* app.py:26    job id -> [status, log, url]
    drawn,                \* the uuid4 values handed out so far
    pc,                   \* position of each job's worker thread
    loc,                  \* the locals of each job's worker thread
    networks,             \* backend: the networks that exist
    containers,           \* backend: the containers that exist
    history,              \* content of env_history.json
    lastResp,             \* the last answer of odoo_execute
    polled,               \* the last answer of odoo_job_status
    DOCKER_LOADED,        \* app.py:134/137
    local_brand_present,  \* app.py:1297 (a fact of the file system)
    quota,                \* the submissions the clients make in this behaviour
    now,                  \* the wall clock, in seconds
    stderr                \* what the history helpers printed to sys.stderr

vars == <<JOBS, drawn, pc, loc, networks, containers, history, lastResp,
          polled, DOCKER_LOADED, local_brand_present, quota, now, stderr>>

----------------------------------------------------------------------------
(* Bounds of the model *)

\* number of jobs the clients submit when jobs run side by side
MaxJobs == 2

\* number of jobs the clients submit when one job is followed through all
\* of its steps, the post-start phase included
SoloJobs == 1

\* longest history the other writers are followed to
MaxHistory == 2

\* last reading of the clock
MaxTime == 2

\* uuid4().hex values as <<characters 1-7, character 8, characters 9-32>>
Uuids == {<<"aaaaaaa", "a", "1">>, <<"aaaaaaa", "a", "2">>, <<"bbbbbbb", "b", "1">>}

NoId == <<"", "", "">>

None == "None"

\* job['url'] before line 1496, and f"http://localhost:{host_port}"
NoUrl == <<>>
Url(host_port) == <<"http://localhost", host_port>>

----------------------------------------------------------------------------
(* Subnets: ipaddress.ip_network values.  o1 is the first octet, base the  *)
(* remaining 24 bits of the network address, len the prefix length (>= 8). *)

RECURSIVE Pow2(_)
Pow2(n) == IF n = 0 THEN 1 ELSE 2 * Pow2(n - 1)

NetOf(o1, o2, o3, o4, len) ==
    [o1 |-> o1, base |-> o2 * 65536 + o3 * 256 + o4, len |-> len]

NoSubnet == [o1 |-> 0, base |-> 0, len |-> 0]

network_address(s) == s.base
\* number of addresses of a network of prefix length 8 .. 32
NumAddresses == [len \in 8 .. 32 |-> Pow2(32 - len)]

broadcast_address(s) == s.base + NumAddresses[s.len] - 1

\* ipaddress: "address in network"
AddrIn(o1, a, s) ==
    o1 = s.o1 /\ network_address(s) <= a /\ a <= broadcast_address(s)

\* an overlap test that looks at the first address of a only
overlaps_first_only(a, b) == AddrIn(a.o1, network_address(a), b)

\* ipaddress._BaseNetwork.overlaps
overlaps(a, b) ==
    \/ AddrIn(a.o1, network_address(a), b)
    \/ AddrIn(a.o1, broadcast_address(a), b)
    \/ AddrIn(b.o1, network_address(b), a)
    \/ AddrIn(b.o1, broadcast_address(b), a)

ScanFirstOctet == 17
ScanEndOctet == 32
CandidatePrefix == 24

candidate_subnet(second_octet, third) ==
    NetOf(172, second_octet, third, 0, CandidatePrefix)

is_overlap(c, existing_networks) ==
    \E net \in existing_networks : overlaps(c, net)

\* the inner loop: for candidate_subnet in search_range.subnets(new_prefix=24),
\* left at the first candidate that overlaps no existing network
ScanRange(second_octet, existing_networks) ==
    LET free == {t \in 0 .. Pow2(CandidatePrefix - 16) - 1 :
                    ~is_overlap(candidate_subnet(second_octet, t), existing_networks)}
    IN  IF free = {} THEN NoSubnet
        ELSE candidate_subnet(second_octet, CHOOSE t \in free : \A u \in free : t <= u)

\* the outer loop: for second_octet in range(17, 32)
RECURSIVE ScanOctets(_, _)
ScanOctets(second_octet, existing_networks) ==
    IF second_octet >= ScanEndOctet THEN NoSubnet
    ELSE LET f == ScanRange(second_octet, existing_networks)
         IN  IF f # NoSubnet THEN f
             ELSE ScanOctets(second_octet + 1, existing_networks)

find_subnet(existing_networks) == ScanOctets(ScanFirstOctet, existing_networks)

----------------------------------------------------------------------------
(* The backend (Docker) *)

\* the address pools the backend allocates from when no subnet is given
DefaultPool == {NetOf(172, 17, 0, 0, 16), NetOf(192, 168, 0, 0, 20)}

\* Scenario B of the specification: three claimed /24 blocks
ScenarioB ==
    {NetOf(172, 17, 0, 0, 24), NetOf(172, 17, 1, 0, 24), NetOf(172, 18, 5, 0, 24)}

External == <<"external", "", "">>

ExtNet(n, s) == [name |-> <<"ext", "", n>>, subnet |-> s, owner |-> External]

\* the sets of networks that may exist before the first job
InitialNetworks ==
    { {},
      {ExtNet("n1", NetOf(172, 17, 0, 0, 24)), ExtNet("n2", NetOf(172, 17, 1, 0, 24)),
       ExtNet("n3", NetOf(172, 18, 5, 0, 24))},
      {ExtNet("n1", NetOf(172, 17, 0, 0, 24)), ExtNet("n2", NetOf(172, 17, 1, 0, 24)),
       ExtNet("n3", NetOf(172, 18, 5, 0, 24)), ExtNet("n4", NetOf(192, 168, 0, 0, 20))},
      {ExtNet("n5", NetOf(172, 16, 0, 0, 12)), ExtNet("n4", NetOf(192, 168, 0, 0, 20))} }

InUse(nets) == {n.subnet : n \in nets}

\* name_prefix = f"odoo-{job_id[:8]}" and the three names derived from it
name_prefix(job_id) == <<job_id[1], job_id[2]>>
ResName(job_id, kind) == <<job_id[1], job_id[2], kind>>
network_name(job_id) == ResName(job_id, "net")
db_container_name(job_id) == ResName(job_id, "db")
odoo_container_name(job_id) == ResName(job_id, "app")

\* a cleanup whose filter names the workload container only
matches_app_only(prefix, name) == name[1] = prefix[1] /\ name[3] = "app"

\* filters={"name": f"{name_prefix}*"}: the backend matches the filter as an
\* unanchored regular expression, so the trailing * makes the 8th character
\* optional and every name holding the first 7 characters matches
matches_filter(prefix, name) == name[1] = prefix[1]

HostPorts == {8069, 8070}

----------------------------------------------------------------------------
(* The job store and its two handlers *)

Range(q) == {q[i] : i \in DOMAIN q}

RECURSIVE Keep(_, _)
\* [m for m in q if m != x]
Keep(q, x) ==
    IF q = <<>> THEN <<>>
    ELSE IF Head(q) = x THEN Keep(Tail(q), x)
         ELSE <<Head(q)>> \o Keep(Tail(q), x)

RECURSIVE NotIn(_, _)
\* [bm for bm in q if bm not in ms]
NotIn(q, ms) ==
    IF q = <<>> THEN <<>>
    ELSE IF Head(q) \in Range(ms) THEN NotIn(Tail(q), ms)
         ELSE <<Head(q)>> \o NotIn(Tail(q), ms)

\* the 'modules' values of the request body: missing, empty, one module;
\* list tells a JSON array from a JSON string, whose val are its characters
NoModules == [given |-> FALSE, val |-> <<>>, list |-> TRUE]
ModuleInputs ==
    {NoModules, [given |-> TRUE, val |-> <<>>, list |-> TRUE],
     [given |-> TRUE, val |-> <<"base">>, list |-> TRUE]}

\* "modules": "base", a value that is not empty and is no list
StrModules == [given |-> TRUE, val |-> <<"b", "a", "s", "e">>, list |-> FALSE]

\* a test that rejects a missing list only
not_none(modules) == modules.given

\* Python truth of data.get('modules')
truthy(modules) == modules.given /\ modules.val # <<>>

\* a job id cut to the 8 characters the resource names use
job_id_short(u) == CHOOSE v \in Uuids : v[1] = u[1] /\ v[2] = u[2]

\* job_id = uuid.uuid4().hex
job_id_of(u) == u

NewJob ==
    [status |-> "pending", log |-> <<"Request to create environment received.">>,
     url |-> NoUrl]

LocInit ==
    [modules |-> <<>>, modules_is_list |-> TRUE,
     website_design |-> None, branding_modules |-> <<>>,
     existing_networks |-> {},
     found_subnet |-> NoSubnet, exc |-> None, raised_at |-> None,
     host_port |-> 0, url |-> NoUrl, envs |-> <<>>, created_at |-> 0,
     todo |-> <<>>,
     probes |-> 0, attempt |-> 0, mod |-> 0, steps |-> <<>>,
     extra_addons_dir |-> FALSE, detected_modules |-> <<>>,
     uex |-> None, wait_s |-> 0, mod_info |-> None]

\* odoo_execute
odoo_execute(modules) ==
    IF ~truthy(modules)
    THEN /\ lastResp' = [code |-> 400, job_id |-> NoId, modules |-> modules]
         /\ UNCHANGED <<JOBS, drawn, pc, loc, networks, containers, history,
                        polled, DOCKER_LOADED, local_brand_present, quota, now, stderr>>
    ELSE /\ Cardinality(drawn) < quota
         /\ \E u \in Uuids \ drawn :
              LET job_id == job_id_of(u) IN
              /\ drawn' = drawn \cup {u}
              /\ JOBS' = (job_id :> NewJob) @@ JOBS
              /\ pc' = [pc EXCEPT ![job_id] = "start"]
              /\ loc' = [loc EXCEPT ![job_id] =
                           [LocInit EXCEPT !.modules = modules.val,
                                           !.modules_is_list = modules.list]]
              /\ lastResp' = [code |-> 200, job_id |-> job_id, modules |-> modules]
         /\ UNCHANGED <<networks, containers, history, polled, DOCKER_LOADED,
                        local_brand_present, quota, now, stderr>>

Submit == \E modules \in ModuleInputs : odoo_execute(modules)

\* the submissions of clients that always name a module
SubmitModules ==
    \E modules \in {m \in ModuleInputs : truthy(m)} : odoo_execute(modules)

\* a lookup that does not see a job before its worker has started
job_status_started(job_id) ==
    IF job_id \in DOMAIN JOBS /\ JOBS[job_id].status # "pending"
    THEN [status |-> JOBS[job_id].status, url |-> JOBS[job_id].url]
    ELSE [status |-> "not_found", url |-> NoUrl]

\* lines 1889-1892: job = JOBS.get(job_id), and what is answered
job_status(job_id) ==
    IF job_id \in DOMAIN JOBS
    THEN [status |-> JOBS[job_id].status, url |-> JOBS[job_id].url]
    ELSE [status |-> "not_found", url |-> NoUrl]

\* odoo_job_status
odoo_job_status(job_id) ==
    /\ polled' = job_status(job_id)
    /\ UNCHANGED <<JOBS, drawn, pc, loc, networks, containers, history,
                   lastResp, DOCKER_LOADED, local_brand_present, quota, now, stderr>>

Poll == \E job_id \in Uuids : odoo_job_status(job_id)

----------------------------------------------------------------------------
(* The worker _create_real_environment, one action per step *)

\* a worker that replaces the log instead of appending to it
LogReplaced(j, lines) == [JOBS EXCEPT ![j].log = lines]

\* log.append(...), once for each line
Log(j, lines) == [JOBS EXCEPT ![j].log = @ \o lines]

Goto(j, label) == pc' = [pc EXCEPT ![j] = label]

Step(j, name) == [loc EXCEPT ![j].steps = Append(@, name)]

\* an exception leaves the try block of line 1344 for the handler of line 1651
Raise(j, L, where, e) ==
    /\ Goto(j, "except")
    /\ loc' = [L EXCEPT ![j].exc = e, ![j].raised_at = where]

Quiet == UNCHANGED <<drawn, history, lastResp, polled, DOCKER_LOADED,
                     local_brand_present, quota, now, stderr>>

\* lines 1300-1303
brand_list(bm0, lbp) ==
    IF lbp /\ "deployable_brand_theme" \notin Range(bm0)
    THEN Append(bm0, "deployable_brand_theme") ELSE bm0

\* lines 1305-1306
with_website(m0, lbp) ==
    IF lbp /\ "website" \notin Range(m0) THEN <<"website">> \o m0 ELSE m0

\* lines 1298-1319: the list that becomes --init=...
module_list(m0, wd, bm0, lbp) ==
    LET m1 == with_website(m0, lbp)
        m2 == IF lbp /\ "deployable_brand_theme" \in Range(m1)
              THEN Keep(m1, "deployable_brand_theme") ELSE m1
        m3 == IF wd # None /\ wd \notin Range(m2) THEN Append(m2, wd) ELSE m2
    IN  m3 \o NotIn(brand_list(bm0, lbp), m3)

\* lines 1306, 1315 and 1319 call insert, append and extend on modules: a
\* value that is no list has none of them
raises_at_start(j) ==
    /\ ~loc[j].modules_is_list
    /\ \/ local_brand_present
       \/ loc[j].website_design # None
       \/ loc[j].branding_modules # <<>>

\* lines 1265-1306: the AttributeError of modules.insert is raised outside
\* every try, and the thread of the worker ends with it
StartCrash(j) ==
    /\ pc[j] = "start"
    /\ raises_at_start(j)
    /\ JOBS' = Log(j, IF local_brand_present
                      THEN <<"Detected local module 'deployable_brand_theme'">>
                      ELSE <<>>)
    /\ Goto(j, "crashed")
    /\ UNCHANGED <<loc, networks, containers>>
    /\ Quiet

\* line 1422: the names that module_string joins for --init=
init_list(j) == loc[j].modules

\* lines 1265-1319: the module lists
Start(j) ==
    /\ pc[j] = "start"
    /\ ~raises_at_start(j)
    /\ LET bm0 == loc[j].branding_modules
           bm1 == brand_list(bm0, local_brand_present)
           m0 == loc[j].modules
           m1 == with_website(m0, local_brand_present)
       IN /\ loc' = [loc EXCEPT
                 ![j].modules = module_list(m0, loc[j].website_design, bm0,
                                            local_brand_present),
                 ![j].branding_modules = bm1]
          /\ JOBS' = Log(j,
                (IF local_brand_present
                 THEN <<"Detected local module 'deployable_brand_theme'">> ELSE <<>>)
             \o (IF local_brand_present /\ "website" \notin Range(m0)
                 THEN <<"Added 'website' module as dependency for brand theme.">> ELSE <<>>)
             \o (IF local_brand_present /\ "deployable_brand_theme" \in Range(m1)
                 THEN <<"Deferring 'deployable_brand_theme' installation to post-start phase.">>
                 ELSE <<>>))
    /\ Goto(j, "check_docker")
    /\ UNCHANGED <<networks, containers>>
    /\ Quiet

\* lines 1321-1334: the backend library is loaded and the daemon answers
CheckDocker(j) ==
    /\ pc[j] = "check_docker"
    /\ \/ /\ ~DOCKER_LOADED
          /\ JOBS' = Log(j, <<"Configuration Error: the 'docker' package is not installed">>)
          /\ Goto(j, "config_failed")
       \/ /\ DOCKER_LOADED
          /\ JOBS' = Log(j, <<"Docker Error: Could not connect to Docker daemon.",
                              "Please ensure Docker Desktop is installed and running.",
                              "Details: ping failed">>)
          /\ Goto(j, "config_failed")
       \/ /\ DOCKER_LOADED
          /\ JOBS' = JOBS
          /\ Goto(j, "begin")
    /\ UNCHANGED <<loc, networks, containers>>
    /\ Quiet

\* a configuration error that is handed to the cleanup
ConfigFailedCleanup(j) ==
    /\ pc[j] = "config_failed"
    /\ JOBS' = [JOBS EXCEPT ![j].status = "failed"]
    /\ Goto(j, "cleanup")
    /\ UNCHANGED <<loc, networks, containers>>
    /\ Quiet

\* lines 1323 / 1333: job['status'] = 'failed'; return
ConfigFailed(j) ==
    /\ pc[j] = "config_failed"
    /\ JOBS' = [JOBS EXCEPT ![j].status = "failed"]
    /\ Goto(j, "done")
    /\ UNCHANGED <<loc, networks, containers>>
    /\ Quiet

\* a worker that starts the creation without marking the job running
BeginPending(j) ==
    /\ pc[j] = "begin"
    /\ JOBS' = Log(j, <<"Starting environment creation...">>)
    /\ Goto(j, "net_create")
    /\ UNCHANGED <<loc, networks, containers>>
    /\ Quiet

\* lines 1345-1346
Begin(j) ==
    /\ pc[j] = "begin"
    /\ JOBS' = [Log(j, <<"Starting environment creation...">>) EXCEPT ![j].status = "running"]
    /\ Goto(j, "net_create")
    /\ UNCHANGED <<loc, networks, containers>>
    /\ Quiet

NameTaken(nets, name) == \E n \in nets : n.name = name

FreePool == {s \in DefaultPool : ~is_overlap(s, InUse(networks))}

\* lines 1349-1354, 1397-1398: client.networks.create(network_name, driver="bridge")
NetCreate(j) ==
    /\ pc[j] = "net_create"
    /\ \/ /\ ~NameTaken(networks, network_name(j))
          /\ \E s \in FreePool :
               networks' = networks \cup
                   {[name |-> network_name(j), subnet |-> s, owner |-> j]}
          /\ JOBS' = Log(j, <<"Creating Docker network">>)
          /\ Goto(j, "db_run")
          /\ loc' = Step(j, "network")
       \/ /\ FreePool = {}
          /\ JOBS' = Log(j, <<"Creating Docker network",
                              "Default network pool exhausted. Attempting to create network with a custom subnet...">>)
          /\ Goto(j, "net_search")
          /\ loc' = Step(j, "network")
          /\ UNCHANGED networks
       \/ /\ JOBS' = Log(j, <<"Creating Docker network">>)
          /\ Raise(j, Step(j, "network"), "network", "APIError")
          /\ UNCHANGED networks
    /\ UNCHANGED containers
    /\ Quiet

Searched(j, existing, found) ==
    [loc EXCEPT ![j].existing_networks = existing, ![j].found_subnet = found]

\* lines 1357-1396: the fallback search over 172.17.0.0/16 .. 172.31.0.0/16
NetSearch(j) ==
    /\ pc[j] = "net_search"
    /\ \/ LET existing == InUse(networks)
              found == find_subnet(existing)
          IN  IF found # NoSubnet
              THEN /\ JOBS' = Log(j, <<"Found non-overlapping subnet">>)
                   /\ loc' = [loc EXCEPT ![j].existing_networks = existing,
                                         ![j].found_subnet = found]
                   /\ Goto(j, "net_custom")
              ELSE /\ JOBS' = JOBS
                   /\ Goto(j, "except")
                   /\ loc' = [loc EXCEPT ![j].existing_networks = existing,
                                         ![j].found_subnet = found,
                                         ![j].exc = "NoSubnet",
                                         ![j].raised_at = "network"]
       \/ /\ JOBS' = Log(j, <<"An unexpected error occurred while searching for a subnet">>)
          /\ Raise(j, loc, "network", "NoSubnet")
    /\ UNCHANGED <<networks, containers>>
    /\ Quiet

\* lines 1383-1388: client.networks.create(network_name, driver="bridge", ipam=...)
NetCustom(j) ==
    /\ pc[j] = "net_custom"
    /\ \/ /\ ~NameTaken(networks, network_name(j))
          /\ ~is_overlap(loc[j].found_subnet, InUse(networks))
          /\ networks' = networks \cup
                 {[name |-> network_name(j), subnet |-> loc[j].found_subnet, owner |-> j]}
          /\ JOBS' = Log(j, <<"Successfully created network with custom subnet">>)
          /\ Goto(j, "db_run")
          /\ loc' = Searched(j, {}, NoSubnet)
       \/ /\ Raise(j, Searched(j, {}, NoSubnet), "network", "APIError")
          /\ UNCHANGED <<JOBS, networks>>
    /\ UNCHANGED containers
    /\ Quiet

OwnedBy(set, j) == {r \in set : r.owner = j}

\* containers.run(..., name=..., network=network.name, detach=True): the backend
\* creates the container and then starts it; either half may fail
Run(j, name, port) ==
    [name |-> name, owner |-> j, network |-> network_name(j), port |-> port]

\* lines 1401-1418
DbRun(j) ==
    /\ pc[j] = "db_run"
    /\ \/ /\ ~NameTaken(containers, db_container_name(j))
          /\ NameTaken(networks, network_name(j))
          /\ containers' = containers \cup {Run(j, db_container_name(j), 0)}
          /\ \/ /\ JOBS' = Log(j, <<"Provisioning PostgreSQL database container (postgres:15)...",
                                    "Database container started.",
                                    "Database user: 'odoo'", "Database password",
                                    "Waiting for database to initialize...">>)
                /\ Goto(j, "app_run")
                /\ loc' = Step(j, "database")
             \/ /\ JOBS' = Log(j, <<"Provisioning PostgreSQL database container (postgres:15)...">>)
                /\ Raise(j, Step(j, "database"), "database", "APIError")
       \/ /\ JOBS' = Log(j, <<"Provisioning PostgreSQL database container (postgres:15)...">>)
          /\ Raise(j, Step(j, "database"), "database", "APIError")
          /\ UNCHANGED containers
    /\ UNCHANGED networks
    /\ Quiet

\* lines 1420-1463
AppRun(j) ==
    /\ pc[j] = "app_run"
    /\ \/ /\ ~NameTaken(containers, odoo_container_name(j))
          /\ NameTaken(networks, network_name(j))
          /\ \E p \in {q \in HostPorts : \A c \in containers : c.port # q} :
               containers' = containers \cup {Run(j, odoo_container_name(j), p)}
          /\ \/ /\ JOBS' = Log(j, <<"Provisioning Odoo container...",
                                    "Odoo container started.",
                                    "Odoo master password set",
                                    "Waiting for Odoo to initialize (this may take a few minutes)...">>)
                /\ Goto(j, "app_reload")
                /\ loc' = Step(j, "workload")
             \/ /\ JOBS' = Log(j, <<"Provisioning Odoo container...">>)
                /\ Raise(j, Step(j, "workload"), "workload", "APIError")
       \/ /\ JOBS' = Log(j, <<"Provisioning Odoo container...">>)
          /\ Raise(j, Step(j, "workload"), "workload", "APIError")
          /\ UNCHANGED containers
    /\ UNCHANGED networks
    /\ Quiet

\* a worker that enters the post-start phase before recording the history
after_ready_post_start == "inst_begin"

\* line 1471: what follows the readiness of the workload
after_ready == "hist_load"

\* lines 1465-1469: the port the backend assigned
AppReload(j) ==
    /\ pc[j] = "app_reload"
    /\ \/ \E c \in containers :
            /\ c.name = odoo_container_name(j)
            /\ loc' = [loc EXCEPT ![j].host_port = c.port, ![j].url = Url(c.port)]
            /\ JOBS' = Log(j, <<"Environment created successfully! Access it at: http://localhost:<port>">>)
            /\ Goto(j, after_ready)
       \/ /\ Raise(j, loc, "port", "Error")
          /\ JOBS' = JOBS
    /\ UNCHANGED <<networks, containers>>
    /\ Quiet

db_name(j) == <<j[1], j[2]>>

\* lines 1474-1480: the History Record of a job (the fields the code compares
\* and sorts by)
env_entry(j) ==
    [db_name |-> db_name(j), port |-> loc[j].host_port,
     created_at |-> loc[j].created_at]

RECURSIVE Without(_, _)
\* [e for e in envs if not (e['db_name'] == x['db_name'] and e['port'] == x['port'])]
Without(envs, x) ==
    IF envs = <<>> THEN <<>>
    ELSE IF Head(envs).db_name = x.db_name /\ Head(envs).port = x.port
         THEN Without(Tail(envs), x)
         ELSE <<Head(envs)>> \o Without(Tail(envs), x)

RECURSIVE InsertDesc(_, _)
\* e goes behind every record that is not older than it
InsertDesc(q, e) ==
    IF q = <<>> THEN <<e>>
    ELSE IF Head(q).created_at >= e.created_at
         THEN <<Head(q)>> \o InsertDesc(Tail(q), e)
         ELSE <<e>> \o q

RECURSIVE SortedDesc(_)
\* line 47: sorted(data, key=lambda x: x.get('created_at', ''), reverse=True),
\* a stable sort
SortedDesc(data) ==
    IF data = <<>> THEN <<>>
    ELSE InsertDesc(SortedDesc(SubSeq(data, 1, Len(data) - 1)), data[Len(data)])

LoadFailed == "Failed to load env history"
SaveFailed == "Failed to save env history"

\* _load_env_history, lines 40-52: the list, newest first; [] and a line on
\* sys.stderr when the file cannot be read or parsed
load_env_history(ok) == IF ok THEN SortedDesc(history) ELSE <<>>

printed_by_load(ok) == IF ok THEN {} ELSE {LoadFailed}

\* a recorder that prepends without looking for the key
upsert_prepend(envs, entry) == <<entry>> \o envs

\* lines 1483-1484 and 269-270: drop the records of the same (db_name, port),
\* then envs.insert(0, entry)
upsert(envs, entry) == <<entry>> \o Without(envs, entry)

\* a save that keeps its failure to itself
save_env_history_silent(envs, printed) ==
    /\ history' \in {envs, history, <<>>}
    /\ stderr' = stderr \cup printed

\* _save_env_history, lines 55-61: a write that fails is printed to
\* sys.stderr, not raised; open(..., 'w') may have emptied the file by then
save_env_history(envs, printed) ==
    \/ /\ history' = envs
       /\ stderr' = stderr \cup printed
    \/ /\ history' \in {history, <<>>}
       /\ stderr' = stderr \cup printed \cup {SaveFailed}

\* lines 1473-1481: now, env_entry, envs = _load_env_history() or []
HistLoad(j) ==
    /\ pc[j] = "hist_load"
    /\ \E ok \in BOOLEAN :
         /\ loc' = [Step(j, "history") EXCEPT ![j].envs = load_env_history(ok),
                                              ![j].created_at = now]
         /\ stderr' = stderr \cup printed_by_load(ok)
    /\ Goto(j, "hist_filter")
    /\ UNCHANGED <<JOBS, networks, containers, drawn, history, lastResp, polled,
                   DOCKER_LOADED, local_brand_present, quota, now>>

LoginLines ==
    <<"--- Odoo Application Login ---", "Email: admin", "Password: admin",
      "(It is recommended to change this password after your first login.)",
      "------------------------------">>

\* lines 1483-1484: the list to save; an exception raised inside the try of
\* line 1472 (by int(host_port) at line 1476, say) is caught at line 1487
HistFilter(j) ==
    /\ pc[j] = "hist_filter"
    /\ \/ /\ loc' = [loc EXCEPT ![j].envs = upsert(@, env_entry(j))]
          /\ Goto(j, "hist_save")
          /\ JOBS' = JOBS
       \/ /\ loc' = [loc EXCEPT ![j].envs = <<>>, ![j].created_at = 0]
          /\ Goto(j, "set_completed")
          /\ JOBS' = Log(j, <<"Failed to record environment history">> \o LoginLines)
    /\ UNCHANGED <<networks, containers>>
    /\ Quiet

\* lines 1485-1494
HistSave(j) ==
    /\ pc[j] = "hist_save"
    /\ save_env_history(loc[j].envs, {})
    /\ JOBS' = Log(j, <<"Recorded environment in history.">> \o LoginLines)
    /\ Goto(j, "set_completed")
    /\ loc' = [loc EXCEPT ![j].envs = <<>>, ![j].created_at = 0]
    /\ UNCHANGED <<networks, containers, drawn, lastResp, polled,
                   DOCKER_LOADED, local_brand_present, quota, now>>

\* line 1495
SetCompleted(j) ==
    /\ pc[j] = "set_completed"
    /\ JOBS' = [JOBS EXCEPT ![j].status = "completed"]
    /\ Goto(j, "set_url")
    /\ UNCHANGED <<loc, networks, containers>>
    /\ Quiet

\* the post-start phase runs when addons are mounted (line 1499)
addons_mounted(j) == loc[j].extra_addons_dir \/ local_brand_present

\* lines 1496-1499
SetUrl(j) ==
    /\ pc[j] = "set_url"
    /\ JOBS' = [JOBS EXCEPT ![j].url = loc[j].url]
    /\ Goto(j, IF addons_mounted(j) THEN "inst_begin" ELSE "done")
    /\ UNCHANGED <<loc, networks, containers>>
    /\ Quiet

----------------------------------------------------------------------------
(* The handler of line 1651 and the cleanup *)

\* a handler that logs no detail of the exception
ErrorLinesBare(e) == <<"An unexpected error occurred">>

\* a handler that writes nothing about the exception it caught
ErrorLinesNone(e) == <<>>

\* lines 1652-1659: what the handler writes for the exception it caught
ErrorLines(e) ==
    IF e = "fully subnetted"
    THEN <<"Docker Error: Docker has run out of network address pools.",
           "This is a common issue that can be resolved by cleaning up unused Docker networks.",
           "Please run the following command in your terminal and then try again:",
           "-> docker network prune">>
    ELSE IF e = "NoSubnet"
    THEN <<"An unexpected error occurred: Failed to find an available network subnet after multiple attempts. Please try cleaning up unused networks with 'docker network prune'">>
    ELSE <<"An unexpected error occurred: error">>

Except(j) ==
    /\ pc[j] = "except"
    /\ JOBS' = Log(j, ErrorLines(loc[j].exc))
    /\ Goto(j, "set_failed")
    /\ UNCHANGED <<loc, networks, containers>>
    /\ Quiet

\* a handler that marks every job of the store failed
SetFailedShared(j) ==
    /\ pc[j] = "set_failed"
    /\ JOBS' = [k \in DOMAIN JOBS |-> [JOBS[k] EXCEPT !.status = "failed"]]
    /\ Goto(j, "cleanup")
    /\ UNCHANGED <<loc, networks, containers>>
    /\ Quiet

\* line 1661
SetFailed(j) ==
    /\ pc[j] = "set_failed"
    /\ JOBS' = [JOBS EXCEPT ![j].status = "failed"]
    /\ Goto(j, "cleanup")
    /\ UNCHANGED <<loc, networks, containers>>
    /\ Quiet

\* a list in the order the backend returns it
RECURSIVE Listed(_)
Listed(set) ==
    IF set = {} THEN <<>>
    ELSE LET x == CHOOSE y \in set : TRUE IN <<x>> \o Listed(set \ {x})

CleanupErrorLines ==
    <<"An error occurred during cleanup", "Some Docker resources may need to be removed manually.">>

\* a cleanup whose exception leaves the worker unlogged
CleanupEscapes(j, lines) ==
    /\ JOBS' = Log(j, lines)
    /\ Goto(j, "done")

\* the except of line 1677 ends the cleanup
CleanupAbort(j, lines) ==
    /\ JOBS' = Log(j, lines \o CleanupErrorLines)
    /\ Goto(j, "done")

\* lines 1662-1667: client.containers.list(all=True, filters={"name": ...})
Cleanup(j) ==
    /\ pc[j] = "cleanup"
    /\ \/ /\ loc' = [loc EXCEPT ![j].todo =
                 Listed({c \in containers : matches_filter(name_prefix(j), c.name)})]
          /\ JOBS' = Log(j, <<"Attempting to clean up created resources...">>)
          /\ Goto(j, "rm_container")
       \/ /\ CleanupAbort(j, <<"Attempting to clean up created resources...">>)
          /\ UNCHANGED loc
    /\ UNCHANGED <<networks, containers>>
    /\ Quiet

\* lines 1667-1672: container.remove(force=True) for each listed container, then
\* client.networks.list(filters={"name": ...})
RemoveContainer(j) ==
    /\ pc[j] = "rm_container"
    /\ IF loc[j].todo # <<>>
       THEN LET c == Head(loc[j].todo) IN
            \/ /\ c \in containers
               /\ containers' = containers \ {c}
               /\ loc' = [loc EXCEPT ![j].todo = Tail(@)]
               /\ JOBS' = Log(j, <<"Removing container">>)
               /\ UNCHANGED pc
            \/ /\ CleanupAbort(j, <<"Removing container">>)
               /\ UNCHANGED <<loc, containers>>
       ELSE /\ \/ /\ loc' = [loc EXCEPT ![j].todo =
                        Listed({n \in networks : matches_filter(name_prefix(j), n.name)})]
                  /\ Goto(j, "rm_network")
                  /\ JOBS' = JOBS
               \/ /\ CleanupAbort(j, <<>>)
                  /\ UNCHANGED loc
            /\ UNCHANGED containers
    /\ UNCHANGED networks
    /\ Quiet

\* lines 1672-1676: net.remove() for each listed network
RemoveNetwork(j) ==
    /\ pc[j] = "rm_network"
    /\ IF loc[j].todo # <<>>
       THEN LET n == Head(loc[j].todo) IN
            \/ /\ n \in networks
               /\ \A c \in containers : c.network # n.name
               /\ networks' = networks \ {n}
               /\ loc' = [loc EXCEPT ![j].todo = Tail(@)]
               /\ JOBS' = Log(j, <<"Removing network">>)
               /\ UNCHANGED pc
            \/ /\ CleanupAbort(j, <<"Removing network">>)
               /\ UNCHANGED <<loc, networks>>
       ELSE /\ JOBS' = Log(j, <<"Cleanup complete.">>)
            /\ Goto(j, "done")
            /\ UNCHANGED <<loc, networks>>
    /\ UNCHANGED containers
    /\ Quiet

----------------------------------------------------------------------------
(* The post-start phase of lines 1498-1649: every failure is caught and logged *)

ProbeAttempts == 40
max_attempts == 5

\* lines 1501-1513
InstBegin(j) ==
    /\ pc[j] = "inst_begin"
    /\ JOBS' = Log(j, <<"Adjusting ownership for extra addons and attempting theme install...">>)
    /\ loc' = [Step(j, "installer") EXCEPT ![j].probes = 0]
    /\ Goto(j, "inst_probe")
    /\ UNCHANGED <<networks, containers>>
    /\ Quiet

\* a post-start phase whose failures reach the handler of line 1651
InstRaised(j, lines, label) ==
    /\ JOBS' = JOBS
    /\ Goto(j, "except")

\* the handlers of the post-start phase: log the failure, go on at label
InstCaught(j, lines, label) ==
    /\ JOBS' = Log(j, lines)
    /\ Goto(j, label)

\* a worker that authenticates whether or not a probe was answered
InstProbeOnward(j) ==
    /\ pc[j] = "inst_probe"
    /\ \/ /\ Goto(j, "inst_auth")
          /\ loc' = [loc EXCEPT ![j].probes = 0]
          /\ JOBS' = JOBS
       \/ IF loc[j].probes + 1 >= ProbeAttempts
          THEN /\ InstCaught(j, <<"Branding install: Odoo did not respond to XML-RPC in time.">>, "inst_auth")
               /\ loc' = [loc EXCEPT ![j].probes = 0]
          ELSE /\ loc' = [loc EXCEPT ![j].probes = @ + 1]
               /\ UNCHANGED <<JOBS, pc>>
    /\ UNCHANGED <<networks, containers>>
    /\ Quiet

\* lines 1514-1522: common.version(), up to 40 times
InstProbe(j) ==
    /\ pc[j] = "inst_probe"
    /\ \/ /\ Goto(j, "inst_auth")
          /\ loc' = [loc EXCEPT ![j].probes = 0]
          /\ JOBS' = JOBS
       \/ IF loc[j].probes + 1 >= ProbeAttempts
          THEN /\ InstCaught(j, <<"Branding install: Odoo did not respond to XML-RPC in time.">>, "done")
               /\ loc' = [loc EXCEPT ![j].probes = 0]
          ELSE /\ loc' = [loc EXCEPT ![j].probes = @ + 1]
               /\ UNCHANGED <<JOBS, pc>>
    /\ UNCHANGED <<networks, containers>>
    /\ Quiet

\* lines 1525-1531, 1646-1647: common.authenticate(db_name, 'admin', 'admin', {})
InstAuth(j) ==
    /\ pc[j] = "inst_auth"
    /\ \/ /\ JOBS' = Log(j, <<"Updating Odoo module list to discover mounted addons...">>)
          /\ loc' = [loc EXCEPT ![j].attempt = 1]
          /\ Goto(j, "inst_update")
       \/ /\ InstCaught(j, <<"Branding install: failed to authenticate to Odoo XML-RPC (admin).">>, "done")
          /\ UNCHANGED loc
       \/ /\ InstCaught(j, <<"Branding install authentication error">>, "done")
          /\ UNCHANGED loc
    /\ UNCHANGED <<networks, containers>>
    /\ Quiet

\* a worker that tries again after whatever failure
retry_always(e, attempt) == attempt < max_attempts

\* the retry test of lines 1541 and 1570
retry(e, attempt) == e = "Invalid Operation" /\ attempt < max_attempts

\* lines 1542 and 1571: wait_s = attempt * 5
wait_s(attempt) == attempt * 5

RpcErrors == {"Invalid Operation", "Fault"}

\* the locals of a retry: the exception caught, the next attempt, the sleep
Retrying(j, e) ==
    [loc EXCEPT ![j].uex = e, ![j].wait_s = wait_s(loc[j].attempt),
                ![j].attempt = @ + 1]

\* line 1553: if branding_modules
AfterUpdateLabel(j) ==
    IF loc[j].branding_modules # <<>> THEN "inst_search" ELSE "auto_scan"

AfterUpdateLines(j) ==
    IF loc[j].branding_modules # <<>>
    THEN <<"Installing specified branding modules">>
    ELSE <<"Auto-detecting modules in mounted addons...">>

AfterUpdateLoc(j) ==
    [loc EXCEPT ![j].mod = IF loc[j].branding_modules # <<>> THEN 1 ELSE 0,
                ![j].attempt = 0, ![j].uex = None, ![j].wait_s = 0]

\* lines 1532-1554 and 1611: update_list with retries, then the branding
\* modules or the modules found in the mounted directories
InstUpdate(j) ==
    /\ pc[j] = "inst_update"
    /\ \/ /\ JOBS' = Log(j, <<"Module list updated successfully.">> \o AfterUpdateLines(j))
          /\ loc' = AfterUpdateLoc(j)
          /\ Goto(j, AfterUpdateLabel(j))
       \/ \E e \in RpcErrors :
            IF retry(e, loc[j].attempt)
            THEN /\ JOBS' = Log(j, <<"Module list update locked by scheduled action. Retrying">>)
                 /\ loc' = Retrying(j, e)
                 /\ UNCHANGED pc
            ELSE /\ InstCaught(j, <<"Module list update failed">> \o AfterUpdateLines(j),
                               AfterUpdateLabel(j))
                 /\ loc' = AfterUpdateLoc(j)
    /\ UNCHANGED <<networks, containers>>
    /\ Quiet

\* the for loop of line 1555 moves to the next module, or to line 1603
NextLabel(j) ==
    IF loc[j].mod < Len(loc[j].branding_modules) THEN "inst_search" ELSE "inst_apply"

NextLoc(j) ==
    [loc EXCEPT ![j].mod = IF loc[j].mod < Len(loc[j].branding_modules)
                           THEN @ + 1 ELSE 0,
                ![j].attempt = 0, ![j].uex = None, ![j].wait_s = 0,
                ![j].mod_info = None]

NextModule(j) ==
    /\ loc' = NextLoc(j)
    /\ Goto(j, NextLabel(j))

\* lines 1585-1596: the copy of the local module into the container by
\* subprocess.check_call, update_list and a second search.  subprocess is a
\* local name of the worker, bound by the import of line 1274 when
\* branding_repos were given and unbound otherwise
FallbackLines(j) ==
    {<<"Fallback: copying local module into container system addons",
       "Fallback copy failed">>}
    \cup
    (IF loc[j].extra_addons_dir
     THEN {<<"Fallback: copying local module into container system addons",
             "Fallback copy completed. Updating module list...",
             last>> :
              last \in {"Fallback copy failed",
                        "Fallback: module discovered after copying",
                        "Fallback: module still not found after copying."}}
     ELSE {})

\* lines 1557-1558, 1579-1601: search; a module that is not found and is the
\* local brand module is copied into the container
InstSearch(j) ==
    /\ pc[j] = "inst_search"
    /\ \/ /\ Goto(j, "inst_read")
          /\ UNCHANGED <<JOBS, loc>>
       \/ /\ \E lines \in
                 (IF local_brand_present
                     /\ loc[j].branding_modules[loc[j].mod] = "deployable_brand_theme"
                  THEN FallbackLines(j) ELSE {<<>>}) :
               JOBS' = Log(j, <<"Module not found in Odoo. Check module name and addons path.">>
                              \o lines)
          /\ NextModule(j)
       \/ /\ InstCaught(j, <<"Error installing branding module">>, NextLabel(j))
          /\ loc' = NextLoc(j)
    /\ UNCHANGED <<networks, containers>>
    /\ Quiet

\* the 'state' of the record read, "unknown" when the read gave no record
ModuleStates == {"uninstalled", "installed", "to install", "unknown"}

\* a worker that installs the module in whatever state it finds it
InstReadAny(j) ==
    /\ pc[j] = "inst_read"
    /\ \E state \in ModuleStates :
          /\ loc' = [loc EXCEPT ![j].attempt = 1, ![j].mod_info = state]
          /\ Goto(j, "inst_install")
          /\ JOBS' = JOBS
    /\ UNCHANGED <<networks, containers>>
    /\ Quiet

\* lines 1560-1561, 1577-1578: read the state
InstRead(j) ==
    /\ pc[j] = "inst_read"
    /\ \/ \E state \in ModuleStates :
            IF state = "uninstalled"
            THEN /\ loc' = [loc EXCEPT ![j].attempt = 1, ![j].mod_info = state]
                 /\ Goto(j, "inst_install")
                 /\ JOBS' = JOBS
            ELSE /\ JOBS' = Log(j, <<"Module already installed or in progress">>)
                 /\ NextModule(j)
       \/ /\ InstCaught(j, <<"Error installing branding module">>, NextLabel(j))
          /\ loc' = NextLoc(j)
    /\ UNCHANGED <<networks, containers>>
    /\ Quiet

\* line 1601: f'Error installing branding module {mod}: {imex}'
InstallError(e) ==
    IF e = "Invalid Operation"
    THEN "Error installing branding module: Invalid Operation"
    ELSE "Error installing branding module: Fault"

\* lines 1563-1575: button_immediate_install with retries
InstInstall(j) ==
    /\ pc[j] = "inst_install"
    /\ \/ /\ JOBS' = Log(j, <<"Module installation triggered.">>)
          /\ NextModule(j)
       \/ \E e \in RpcErrors :
            IF retry(e, loc[j].attempt)
            THEN /\ JOBS' = Log(j, <<"Module install locked by scheduled action. Retrying">>)
                 /\ loc' = Retrying(j, e)
                 /\ UNCHANGED pc
            ELSE /\ InstCaught(j, <<InstallError(e)>>, NextLabel(j))
                 /\ loc' = NextLoc(j)
    /\ UNCHANGED <<networks, containers>>
    /\ Quiet

\* lines 1603-1608: deployable.brand.apply_theme
InstApply(j) ==
    /\ pc[j] = "inst_apply"
    /\ \/ /\ JOBS' = Log(j, <<"Attempting to apply branding theme via deployable.brand.apply_theme...",
                              "deployable.brand.apply_theme invoked">>)
          /\ Goto(j, "done")
       \/ InstCaught(j, <<"Attempting to apply branding theme via deployable.brand.apply_theme...",
                          "Warning: apply_theme call failed">>, "done")
    /\ UNCHANGED <<loc, networks, containers>>
    /\ Quiet

\* what os.walk finds under the mounted directories: the folders that hold
\* a __manifest__.py
DetectedInputs == {<<>>, <<"brand_a">>, <<"brand_a", "brand_b">>}

\* lines 1611-1627, 1642-1643: the walk over the mounted directories
AutoScan(j) ==
    /\ pc[j] = "auto_scan"
    /\ \E detected_modules \in DetectedInputs :
          IF detected_modules # <<>>
          THEN /\ JOBS' = Log(j, <<"Found modules to install">>)
               /\ loc' = [loc EXCEPT ![j].detected_modules = detected_modules,
                                     ![j].mod = 1]
               /\ Goto(j, "auto_search")
          ELSE /\ JOBS' = Log(j, <<"No modules detected for auto-install.">>)
               /\ Goto(j, "done")
               /\ UNCHANGED loc
    /\ UNCHANGED <<networks, containers>>
    /\ Quiet

\* the for loop of line 1628 moves to the next module, or ends
AutoNextLabel(j) ==
    IF loc[j].mod < Len(loc[j].detected_modules) THEN "auto_search" ELSE "done"

AutoNextLoc(j) ==
    IF loc[j].mod < Len(loc[j].detected_modules)
    THEN [loc EXCEPT ![j].mod = @ + 1, ![j].mod_info = None]
    ELSE [loc EXCEPT ![j].mod = 0, ![j].mod_info = None,
                     ![j].detected_modules = <<>>]

AutoNextModule(j) ==
    /\ loc' = AutoNextLoc(j)
    /\ Goto(j, AutoNextLabel(j))

\* lines 1630-1631, 1638-1641: search
AutoSearch(j) ==
    /\ pc[j] = "auto_search"
    /\ \/ /\ Goto(j, "auto_read")
          /\ UNCHANGED <<JOBS, loc>>
       \/ /\ JOBS' = Log(j, <<"Module not found after update_list. Check addons path.">>)
          /\ AutoNextModule(j)
       \/ /\ JOBS' = Log(j, <<"Auto-install error">>)
          /\ AutoNextModule(j)
    /\ UNCHANGED <<networks, containers>>
    /\ Quiet

\* lines 1632-1633, 1636-1637: read the state
AutoRead(j) ==
    /\ pc[j] = "auto_read"
    /\ \/ \E state \in ModuleStates :
            IF state = "uninstalled"
            THEN /\ loc' = [loc EXCEPT ![j].mod_info = state]
                 /\ Goto(j, "auto_install")
                 /\ JOBS' = JOBS
            ELSE /\ JOBS' = Log(j, <<"Module state">>)
                 /\ AutoNextModule(j)
       \/ /\ JOBS' = Log(j, <<"Auto-install error">>)
          /\ AutoNextModule(j)
    /\ UNCHANGED <<networks, containers>>
    /\ Quiet

\* line 1641: f'Auto-install error for {module_name}: {autoex}'
AutoInstallError(e) ==
    IF e = "Invalid Operation"
    THEN "Auto-install error: Invalid Operation"
    ELSE "Auto-install error: Fault"

\* lines 1634-1635, 1640-1641: button_immediate_install, called once
AutoInstall(j) ==
    /\ pc[j] = "auto_install"
    /\ \/ JOBS' = Log(j, <<"Auto-install triggered for module">>)
       \/ \E e \in RpcErrors : JOBS' = Log(j, <<AutoInstallError(e)>>)
    /\ AutoNextModule(j)
    /\ UNCHANGED <<networks, containers>>
    /\ Quiet

----------------------------------------------------------------------------
(* The other writers of env_history.json.  A name is a sequence of pieces   *)
(* of text, and "needle in name" is the test for a run of pieces.           *)

\* the job whose worker is followed through the recording of its history
HistJob == CHOOSE u \in Uuids : TRUE

\* the names a client creates and drops environments by: the db_name of a
\* job, a name of its own, and a name of the form odoo_<number>
NameInputs == {db_name(HistJob), <<"Shop">>, <<"odoo_", "1000">>}

\* the names a client starts environments by: a known name in another
\* spelling, a part of a known name, and a new name
StartInputs == {<<"shop">>, <<"odoo_">>, <<"odoo_", "1000">>}

PortInputs == {8069, 8070}

\* str.lower()
lower_piece(t) == IF t = "Shop" THEN "shop" ELSE t
lower(name) == [i \in DOMAIN name |-> lower_piece(name[i])]

\* needle in name
IsInfix(needle, name) ==
    \E i \in 0 .. Len(name) - Len(needle) :
        SubSeq(name, i + 1, i + Len(needle)) = needle

\* the 'url' of a record, f'http://localhost:{port}'
url_of(e) == <<"http://localhost:", ToString(e.port)>>

\* _find_env, lines 64-87: is there a record whose name is, starts with or
\* holds the needle, or whose url holds it
find_env(envs, name) ==
    \E e \in Range(envs) :
        \/ lower(e.db_name) = lower(name)
        \/ IsInfix(lower(name), lower(e.db_name))
        \/ IsInfix(lower(name), lower(url_of(e)))

RECURSIVE WithoutName(_, _)
\* [e for e in envs if e.get('db_name') != name]
WithoutName(envs, name) ==
    IF envs = <<>> THEN <<>>
    ELSE IF Head(envs).db_name = name THEN WithoutName(Tail(envs), name)
         ELSE <<Head(envs)>> \o WithoutName(Tail(envs), name)

\* the writers are followed one after the other: a request is served while no
\* worker is between reading the history and saving it
NoRecording == \A j \in Uuids : pc[j] \notin {"hist_filter", "hist_save"}

HistQuiet ==
    UNCHANGED <<JOBS, drawn, pc, loc, networks, containers, lastResp, polled,
                DOCKER_LOADED, local_brand_present, quota, now>>

\* a request that would make the list longer than the model follows is not made
Fits(envs) == Len(envs) <= MaxHistory

\* _create_docker_environment, lines 260-271, once docker compose is up
create_docker_environment(name, http_port) ==
    /\ NoRecording
    /\ \E ok \in BOOLEAN :
         LET entry == [db_name |-> name, port |-> http_port, created_at |-> now]
             envs == upsert(load_env_history(ok), entry)
         IN  /\ Fits(envs)
             /\ save_env_history(envs, printed_by_load(ok))
    /\ HistQuiet

\* _create_native_environment, lines 490-503, once the service is started
create_native_environment(name, http_port) ==
    /\ NoRecording
    /\ \E ok \in BOOLEAN :
         LET entry == [db_name |-> name, port |-> http_port, created_at |-> now]
             envs == <<entry>> \o WithoutName(load_env_history(ok), name)
         IN  /\ Fits(envs)
             /\ save_env_history(envs, printed_by_load(ok))
    /\ HistQuiet

StartFirstPort == 8070
StartEndPort == 8100
StartFallbackPort == 8069

\* lines 1978-1988: the first port of range(8070, 8100) no known environment uses
candidate_port(used_ports) ==
    LET free == (StartFirstPort .. StartEndPort - 1) \ used_ports
    IN  IF free = {} THEN StartFallbackPort
        ELSE CHOOSE p \in free : \A q \in free : p <= q

\* odoo_local_env_start with a db_name that _find_env and the scan of
\* get_odoo_env_choices do not know, lines 1913-1921 and 1977-2003; scanned
\* are the ports that the folders under environments/ add to the used ones
local_env_start_named(name) ==
    /\ NoRecording
    /\ \E ok \in BOOLEAN, scanned \in SUBSET {StartFirstPort} :
         LET known == load_env_history(ok)
             port == candidate_port({e.port : e \in Range(known)} \cup scanned)
             new_env == [db_name |-> name, port |-> port, created_at |-> now]
             envs == <<new_env>> \o known
         IN  /\ ~find_env(known, name)
             /\ Fits(envs)
             /\ save_env_history(envs, printed_by_load(ok))
    /\ HistQuiet

\* odoo_local_env_start without a db_name, lines 2024-2045; new_db is
\* f"odoo_{random.randint(1000,9999)}" and new_port random.randint(8070, 8090)
local_env_start_new ==
    /\ NoRecording
    /\ \E new_db \in {<<"odoo_", "1000">>}, new_port \in {8070, 8071}, ok \in BOOLEAN :
         LET env == [db_name |-> new_db, port |-> new_port, created_at |-> now]
             envs == <<env>> \o load_env_history(ok)
         IN  /\ Fits(envs)
             /\ save_env_history(envs, printed_by_load(ok))
    /\ HistQuiet

\* odoo_local_env_drop, lines 2054-2064
local_env_drop(name) ==
    /\ NoRecording
    /\ \E ok \in BOOLEAN :
         LET envs == load_env_history(ok)
             filtered == WithoutName(envs, name)
         IN  IF Len(filtered) # Len(envs)
             THEN save_env_history(filtered, printed_by_load(ok))
             ELSE /\ history' = history
                  /\ stderr' = stderr \cup printed_by_load(ok)
    /\ HistQuiet

\* a second passes
Tick ==
    /\ now < MaxTime
    /\ now' = now + 1
    /\ UNCHANGED <<JOBS, drawn, pc, loc, networks, containers, history, lastResp,
                   polled, DOCKER_LOADED, local_brand_present, quota, stderr>>

----------------------------------------------------------------------------
(* The system *)

InitCommon ==
    /\ JOBS = <<>>
    /\ drawn = {}
    /\ pc = [u \in Uuids |-> "idle"]
    /\ loc = [u \in Uuids |-> LocInit]
    /\ networks \in InitialNetworks
    /\ containers = {}
    /\ history = <<>>
    /\ lastResp = [code |-> 0, job_id |-> NoId, modules |-> NoModules]
    /\ polled = [status |-> "not_found", url |-> NoUrl]
    /\ now = 1
    /\ stderr = {}

\* one job, followed through every step
Init ==
    /\ InitCommon
    /\ DOCKER_LOADED \in BOOLEAN
    /\ local_brand_present \in BOOLEAN
    /\ quota = SoloJobs

Core(j) ==
    \/ Start(j) \/ CheckDocker(j) \/ ConfigFailed(j) \/ Begin(j)
    \/ NetCreate(j) \/ NetSearch(j) \/ NetCustom(j)
    \/ DbRun(j) \/ AppRun(j) \/ AppReload(j)
    \/ HistLoad(j) \/ HistFilter(j) \/ HistSave(j)
    \/ SetCompleted(j) \/ SetUrl(j)
    \/ Except(j) \/ SetFailed(j)
    \/ Cleanup(j) \/ RemoveContainer(j) \/ RemoveNetwork(j)

PostStart(j) ==
    \/ InstBegin(j) \/ InstProbe(j) \/ InstAuth(j) \/ InstUpdate(j)
    \/ InstSearch(j) \/ InstRead(j) \/ InstInstall(j) \/ InstApply(j)

Next ==
    \/ Submit
    \/ Poll
    \/ \E j \in Uuids : Core(j)
    \/ \E j \in Uuids : PostStart(j)

Spec == Init /\ [][Next]_vars

\* several jobs side by side, on a host without the local brand module:
\* the post-start phase is not entered (line 1499)
InitConc ==
    /\ InitCommon
    /\ DOCKER_LOADED = TRUE
    /\ local_brand_present = FALSE
    /\ quota = MaxJobs

NextConc ==
    \/ SubmitModules
    \/ \E j \in Uuids : Core(j)

SpecConc == InitConc /\ [][NextConc]_vars

\* one job of a client that sends any value that is not empty as 'modules',
\* on a host whose networks leave nothing of the default pool; every thread
\* that can take a step takes one in the end
InitLive ==
    /\ InitCommon
    /\ networks = {ExtNet("n1", NetOf(172, 17, 0, 0, 24)),
                   ExtNet("n2", NetOf(172, 17, 1, 0, 24)),
                   ExtNet("n3", NetOf(172, 18, 5, 0, 24)),
                   ExtNet("n4", NetOf(192, 168, 0, 0, 20))}
    /\ DOCKER_LOADED \in BOOLEAN
    /\ local_brand_present \in BOOLEAN
    /\ quota = SoloJobs

SubmitAny ==
    \E modules \in {m \in ModuleInputs : truthy(m)} \cup {StrModules} :
        odoo_execute(modules)

Worker(j) == Core(j) \/ PostStart(j) \/ StartCrash(j)

NextLive ==
    \/ SubmitAny
    \/ \E j \in Uuids : Worker(j)

SpecLive ==
    /\ InitLive
    /\ [][NextLive]_vars
    /\ \A j \in Uuids : WF_vars(Worker(j))

\* several jobs side by side while a client polls, on a host whose networks
\* leave nothing of the default pool
InitPolled ==
    /\ InitConc
    /\ networks = {ExtNet("n1", NetOf(172, 17, 0, 0, 24)),
                   ExtNet("n2", NetOf(172, 17, 1, 0, 24)),
                   ExtNet("n3", NetOf(172, 18, 5, 0, 24)),
                   ExtNet("n4", NetOf(192, 168, 0, 0, 20))}

NextPolled ==
    \/ SubmitModules
    \/ Poll
    \/ \E j \in Uuids : Core(j)

SpecPolled == InitPolled /\ [][NextPolled]_vars

\* the fallback search on its own: a worker that has just been told that the
\* default pool is exhausted, for every set of claimed subnets of the catalog
\* that exhausts the pool
Catalog ==
    {NetOf(172, 17, 0, 0, 24), NetOf(172, 17, 1, 0, 24), NetOf(172, 18, 5, 0, 24),
     NetOf(172, 17, 0, 0, 16), NetOf(172, 16, 0, 0, 12), NetOf(172, 17, 2, 128, 25),
     NetOf(172, 18, 0, 0, 15), NetOf(192, 168, 0, 0, 20)}

CatalogName(s) == <<"ext", "", s>>

SearchJob == CHOOSE u \in Uuids : TRUE

InitSearch ==
    /\ \E claimed \in SUBSET Catalog :
          /\ \A s \in DefaultPool : is_overlap(s, claimed)
          /\ networks = {[name |-> CatalogName(s), subnet |-> s, owner |-> External] :
                            s \in claimed}
    /\ JOBS = (SearchJob :>
                 [status |-> "running",
                  log |-> <<"Request to create environment received.",
                            "Starting environment creation...",
                            "Creating Docker network",
                            "Default network pool exhausted. Attempting to create network with a custom subnet...">>,
                  url |-> NoUrl])
    /\ drawn = {SearchJob}
    /\ pc = [u \in Uuids |-> IF u = SearchJob THEN "net_search" ELSE "idle"]
    /\ loc = [u \in Uuids |->
                 IF u = SearchJob
                 THEN [LocInit EXCEPT !.modules = <<"base">>, !.steps = <<"network">>]
                 ELSE LocInit]
    /\ containers = {}
    /\ history = <<>>
    /\ lastResp = [code |-> 200, job_id |-> SearchJob,
                   modules |-> [given |-> TRUE, val |-> <<"base">>, list |-> TRUE]]
    /\ polled = [status |-> "not_found", url |-> NoUrl]
    /\ DOCKER_LOADED = TRUE
    /\ local_brand_present = FALSE
    /\ quota = SoloJobs
    /\ now = 1
    /\ stderr = {}

NextSearch == \E j \in Uuids : NetSearch(j)

SpecSearch == InitSearch /\ [][NextSearch]_vars

\* the history and its writers: a worker that is about to record its
\* environment (lines 1349-1469 are behind it), and the requests that write
\* the history
InitHist ==
    /\ \E p \in HostPorts :
          /\ containers = {Run(HistJob, db_container_name(HistJob), 0),
                           Run(HistJob, odoo_container_name(HistJob), p)}
          /\ loc = [u \in Uuids |->
                      IF u = HistJob
                      THEN [LocInit EXCEPT !.modules = <<"base">>,
                                           !.host_port = p, !.url = Url(p),
                                           !.steps = <<"network", "database", "workload">>]
                      ELSE LocInit]
    /\ networks = {[name |-> network_name(HistJob), subnet |-> NetOf(172, 17, 0, 0, 16),
                    owner |-> HistJob]}
    /\ JOBS = (HistJob :>
                 [status |-> "running",
                  log |-> <<"Request to create environment received.",
                            "Starting environment creation...",
                            "Creating Docker network",
                            "Provisioning PostgreSQL database container (postgres:15)...",
                            "Database container started.",
                            "Database user: 'odoo'", "Database password",
                            "Waiting for database to initialize...",
                            "Provisioning Odoo container...",
                            "Odoo container started.",
                            "Odoo master password set",
                            "Waiting for Odoo to initialize (this may take a few minutes)...",
                            "Environment created successfully! Access it at: http://localhost:<port>">>,
                  url |-> NoUrl])
    /\ drawn = {HistJob}
    /\ pc = [u \in Uuids |-> IF u = HistJob THEN "hist_load" ELSE "idle"]
    /\ history = <<>>
    /\ lastResp = [code |-> 200, job_id |-> HistJob,
                   modules |-> [given |-> TRUE, val |-> <<"base">>, list |-> TRUE]]
    /\ polled = [status |-> "not_found", url |-> NoUrl]
    /\ DOCKER_LOADED = TRUE
    /\ local_brand_present = FALSE
    /\ quota = SoloJobs
    /\ now = 1
    /\ stderr = {}

NextHist ==
    \/ Tick
    \/ \E j \in Uuids : HistLoad(j) \/ HistFilter(j) \/ HistSave(j)
                        \/ SetCompleted(j) \/ SetUrl(j)
    \/ \E name \in NameInputs, http_port \in PortInputs :
          create_docker_environment(name, http_port)
    \/ \E name \in NameInputs, http_port \in PortInputs :
          create_native_environment(name, http_port)
    \/ \E name \in StartInputs : local_env_start_named(name)
    \/ local_env_start_new
    \/ \E name \in NameInputs : local_env_drop(name)

SpecHist == InitHist /\ [][NextHist]_vars

\* longest list of a request that is followed
MaxModules == 2

\* the lists of at most MaxModules module names, repeated names included
ModuleLists ==
    UNION {[1 .. n -> {"base", "website", "deployable_brand_theme"}] : n \in 0 .. MaxModules}

ListJob == CHOOSE u \in Uuids : TRUE

\* the worker of a job that odoo_execute has just accepted, for every
\* 'modules', 'website_design' and 'branding_modules' of the request
\* (lines 1866-1882)
InitModules ==
    /\ \E m \in ModuleLists \ {<<>>}, wd \in {None, "base", "theme_x"}, bm \in ModuleLists :
          /\ loc = [u \in Uuids |->
                      IF u = ListJob
                      THEN [LocInit EXCEPT !.modules = m, !.website_design = wd,
                                           !.branding_modules = bm]
                      ELSE LocInit]
          /\ lastResp = [code |-> 200, job_id |-> ListJob,
                         modules |-> [given |-> TRUE, val |-> m, list |-> TRUE]]
    /\ JOBS = (ListJob :> NewJob)
    /\ drawn = {ListJob}
    /\ pc = [u \in Uuids |-> IF u = ListJob THEN "start" ELSE "idle"]
    /\ networks = {}
    /\ containers = {}
    /\ history = <<>>
    /\ polled = [status |-> "not_found", url |-> NoUrl]
    /\ DOCKER_LOADED = TRUE
    /\ local_brand_present \in BOOLEAN
    /\ quota = SoloJobs
    /\ now = 1
    /\ stderr = {}

NextModules == \E j \in Uuids : Start(j)

SpecModules == InitModules /\ [][NextModules]_vars

\* the modules a caller names as branding_modules
BrandingInputs == {<<>>, <<"brand_a">>}

AutoJob == CHOOSE u \in Uuids : TRUE

\* the post-start phase of a worker that was called with branding_repos and
\* has cloned them into extra_addons_dir (lines 1272-1293): the environment is
\* recorded, the job is completed, and a probe has just been answered
InitAuto ==
    /\ local_brand_present \in BOOLEAN
    /\ \E p \in HostPorts, bm \in BrandingInputs :
          /\ containers = {Run(AutoJob, db_container_name(AutoJob), 0),
                           Run(AutoJob, odoo_container_name(AutoJob), p)}
          /\ loc = [u \in Uuids |->
                      IF u = AutoJob
                      THEN [LocInit EXCEPT
                              !.modules = module_list(<<"base">>, None, bm, local_brand_present),
                              !.branding_modules = brand_list(bm, local_brand_present),
                              !.host_port = p, !.url = Url(p),
                              !.extra_addons_dir = TRUE,
                              !.steps = <<"network", "database", "workload",
                                          "history", "installer">>]
                      ELSE LocInit]
          /\ history = <<[db_name |-> db_name(AutoJob), port |-> p, created_at |-> 1]>>
          /\ JOBS = (AutoJob :>
                       [status |-> "completed",
                        log |-> <<"Request to create environment received.",
                                  "Preparing branding repos",
                                  "Starting environment creation...",
                                  "Creating Docker network",
                                  "Provisioning PostgreSQL database container (postgres:15)...",
                                  "Database container started.",
                                  "Database user: 'odoo'", "Database password",
                                  "Waiting for database to initialize...",
                                  "Provisioning Odoo container...",
                                  "Odoo container started.",
                                  "Odoo master password set",
                                  "Waiting for Odoo to initialize (this may take a few minutes)...",
                                  "Environment created successfully! Access it at: http://localhost:<port>",
                                  "Recorded environment in history.">>
                                 \o LoginLines
                                 \o <<"Adjusting ownership for extra addons and attempting theme install...">>,
                        url |-> Url(p)])
    /\ networks = {[name |-> network_name(AutoJob), subnet |-> NetOf(172, 17, 0, 0, 16),
                    owner |-> AutoJob]}
    /\ drawn = {AutoJob}
    /\ pc = [u \in Uuids |-> IF u = AutoJob THEN "inst_auth" ELSE "idle"]
    /\ lastResp = [code |-> 0, job_id |-> NoId, modules |-> NoModules]
    /\ polled = [status |-> "not_found", url |-> NoUrl]
    /\ DOCKER_LOADED = TRUE
    /\ quota = SoloJobs
    /\ now = 1
    /\ stderr = {}

AutoDetect(j) ==
    \/ AutoScan(j) \/ AutoSearch(j) \/ AutoRead(j) \/ AutoInstall(j)

NextAuto ==
    \/ \E j \in Uuids : InstAuth(j) \/ InstUpdate(j) \/ InstSearch(j)
                        \/ InstRead(j) \/ InstInstall(j) \/ InstApply(j)
    \/ \E j \in Uuids : AutoDetect(j)

SpecAuto == InitAuto /\ [][NextAuto]_vars

----------------------------------------------------------------------------
(* Claims *)

Terminal(status) == status \in {"completed", "failed"}

IsPrefix(p, q) == Len(p) <= Len(q) /\ SubSeq(q, 1, Len(p)) = p

Lines(j) == Range(JOBS[j].log)

Last(q) == q[Len(q)]

HandlerLabels == {"except", "set_failed", "cleanup", "rm_container", "rm_network"}

CleanupLine == "Attempting to clean up created resources..."

\* C1 (as stated): once a job's status is completed or failed, neither its
\* status nor its log changes again.
C1_NothingAfterTerminal ==
    [][\A j \in DOMAIN JOBS :
          Terminal(JOBS[j].status) =>
              /\ JOBS'[j].status = JOBS[j].status
              /\ JOBS'[j].log = JOBS[j].log]_vars

\* C1 (amended): once a job's status is completed or failed, its status never
\* changes again and the lines already in its log stay as they are; the worker
\* may still append lines (post-start phase, cleanup).
C1_TerminalStatusKept ==
    [][\A j \in DOMAIN JOBS :
          Terminal(JOBS[j].status) =>
              /\ JOBS'[j].status = JOBS[j].status
              /\ IsPrefix(JOBS[j].log, JOBS'[j].log)]_vars

\* C1 witness: a failed job whose log got its cleanup lines after the status
C1_Witness ==
    \E j \in DOMAIN JOBS :
        /\ JOBS[j].status = "failed"
        /\ pc[j] = "done"
        /\ Last(JOBS[j].log) = "Cleanup complete."

\* C2: from the moment the post-start phase has begun, whatever its calls do
\* (no answer, failed or raising authentication, raising update_list, search,
\* read, install or apply_theme), the job's status is completed, the handler of
\* line 1651 is not entered and the cleanup does not run.
C2_PostStartNeverFails ==
    \A j \in DOMAIN JOBS :
        "installer" \in Range(loc[j].steps) =>
            /\ JOBS[j].status = "completed"
            /\ pc[j] \notin HandlerLabels
            /\ CleanupLine \notin Lines(j)

\* C2 witness: a worker that has stopped after update_list, an install and
\* apply_theme all failed
C2_Witness ==
    \E j \in DOMAIN JOBS :
        /\ pc[j] = "done"
        /\ {"Module list update failed", "Error installing branding module",
            "Warning: apply_theme call failed"} \subseteq Lines(j)

\* the steps of a job that were created before the exception, still there
Leftover(j) == OwnedBy(containers, j) \cup OwnedBy(networks, j)

FailedIn(j, places) ==
    /\ pc[j] = "done"
    /\ JOBS[j].status = "failed"
    /\ loc[j].raised_at \in places

C4_NoTornSnapshot ==
    polled.status = "completed" => polled.url # NoUrl

Pos(order, x) == CHOOSE i \in 1 .. Len(order) : order[i] = x

C6_ExplicitSubnetFree ==
    \A j \in DOMAIN JOBS :
        pc[j] = "net_custom" => ~is_overlap(loc[j].found_subnet, InUse(networks))

\* two networks share an address
Intersect(a, b) ==
    /\ a.o1 = b.o1
    /\ a.base <= b.base + NumAddresses[b.len] - 1
    /\ b.base <= a.base + NumAddresses[a.len] - 1

\* the candidate blocks: the /24 blocks of 172.17.0.0/16 .. 172.31.0.0/16
Candidates ==
    {NetOf(172, o2, o3, 0, 24) : o2 \in 17 .. 31, o3 \in 0 .. 255}

Free(c, claimed) == \A n \in claimed : ~Intersect(c, n)

SearchDone(j) ==
    /\ pc[j] \in {"net_custom", "except"}
    /\ "An unexpected error occurred while searching for a subnet" \notin Lines(j)

\* C7: after the search, the subnet found is a candidate block that shares no
\* address with a claimed subnet, every candidate block before it does, and
\* nothing is found only if no candidate block is free; the claimed subnets
\* 172.17.0.0/24, 172.17.1.0/24, 172.18.5.0/24 (with 192.168.0.0/20) give
\* 172.17.2.0/24.
C7_FirstFreeBlock ==
    \A j \in DOMAIN JOBS :
        SearchDone(j) =>
            LET found == loc[j].found_subnet
                claimed == loc[j].existing_networks
            IN  /\ found # NoSubnet =>
                       /\ found \in Candidates
                       /\ Free(found, claimed)
                       /\ \A c \in Candidates : c.base < found.base => ~Free(c, claimed)
                /\ found = NoSubnet => \A c \in Candidates : ~Free(c, claimed)
                /\ claimed = ScenarioB \cup {NetOf(192, 168, 0, 0, 20)} =>
                       found = NetOf(172, 17, 2, 0, 24)

\* C7 witness: the search has skipped the claimed blocks 172.17.0.0/24,
\* 172.17.1.0/24 and the claimed half of 172.17.2.0/24 and found 172.17.3.0/24
C7_Witness ==
    \E j \in DOMAIN JOBS :
        /\ pc[j] = "net_custom"
        /\ NetOf(172, 17, 2, 128, 25) \in loc[j].existing_networks
        /\ loc[j].found_subnet = NetOf(172, 17, 3, 0, 24)

MentionsPrune(line) ==
    line \in {"-> docker network prune",
              "An unexpected error occurred: Failed to find an available network subnet after multiple attempts. Please try cleaning up unused networks with 'docker network prune'"}

C9_EmptyRequestNoOp ==
    [][(lastResp' # lastResp /\ ~(lastResp'.modules.given /\ lastResp'.modules.val # <<>>)) =>
          /\ lastResp'.code = 400
          /\ lastResp'.job_id = NoId
          /\ UNCHANGED <<JOBS, drawn, pc, loc, networks, containers, history>>]_vars

\* C9 witness: an empty list was rejected while a job was running
C9_Witness ==
    /\ lastResp.code = 400
    /\ lastResp.modules.given
    /\ \E j \in DOMAIN JOBS : JOBS[j].status = "running"

\* C10: every accepted submission returns a job id that no earlier submission
\* returned and adds one entry to the job store, leaving every other entry as
\* it is (uuid4 never returns a value twice).
C10_FreshJobId ==
    [][drawn' # drawn =>
          /\ lastResp'.job_id \notin DOMAIN JOBS
          /\ DOMAIN JOBS' = DOMAIN JOBS \cup {lastResp'.job_id}
          /\ \A k \in DOMAIN JOBS : JOBS'[k] = JOBS[k]]_vars

\* C10 witness: two jobs whose ids agree on their first 8 characters
C10_Witness ==
    \E j, k \in DOMAIN JOBS :
        j # k /\ name_prefix(j) = name_prefix(k)

StatusSteps ==
    {<<"pending", "running">>, <<"running", "completed">>,
     <<"running", "failed">>, <<"pending", "failed">>}

\* C11: a job's entry is never deleted and its status changes only along
\* pending -> running, running -> completed, running -> failed and
\* pending -> failed; so a completed job was running before, no status
\* moves backwards and completed and failed never turn into each other.
C11_StatusTransitions ==
    [][\A j \in DOMAIN JOBS :
          /\ j \in DOMAIN JOBS'
          /\ JOBS'[j].status # JOBS[j].status =>
                 <<JOBS[j].status, JOBS'[j].status>> \in StatusSteps]_vars

\* C11 witness: a job that went from pending to running to completed
C11_Witness ==
    \E j \in DOMAIN JOBS :
        /\ JOBS[j].status = "completed"
        /\ "Starting environment creation..." \in Lines(j)
        /\ pc[j] = "done"

\* the lines that say why a job failed (lines 1322, 1330-1332, 1653-1659)
Explanations ==
    {"Configuration Error: the 'docker' package is not installed",
     "Docker Error: Could not connect to Docker daemon.",
     "Docker Error: Docker has run out of network address pools.",
     "An unexpected error occurred: Failed to find an available network subnet after multiple attempts. Please try cleaning up unused networks with 'docker network prune'",
     "An unexpected error occurred: error"}

\* C12: whenever a job's status is failed, its log holds, after the line
\* written at submission, a line that says why.
C12_FailedIsExplained ==
    \A j \in DOMAIN JOBS :
        JOBS[j].status = "failed" =>
            \E i \in 2 .. Len(JOBS[j].log) : JOBS[j].log[i] \in Explanations

\* C12 witness: the handler has just set failed, the cleanup has not begun
C12_Witness ==
    \E j \in DOMAIN JOBS :
        /\ JOBS[j].status = "failed"
        /\ pc[j] = "cleanup"
        /\ Last(JOBS[j].log) \in Explanations

Count(q, x) == Cardinality({i \in DOMAIN q : q[i] = x})

CleanupLabels == {"cleanup", "rm_container", "rm_network"}

\* the worker's own part of C13: the cleanup of a job begins at most once,
\* only after one of its network, database or workload steps raised, and
\* never once the job's status is completed
C13_OwnCleanup ==
    \A j \in DOMAIN JOBS :
        /\ Count(JOBS[j].log, CleanupLine) <= 1
        /\ pc[j] \in CleanupLabels =>
               loc[j].raised_at \in {"network", "database", "workload", "port"}
        /\ JOBS[j].status = "completed" =>
               pc[j] \notin HandlerLabels /\ CleanupLine \notin Lines(j)

\* C13: the cleanup of a job runs at most once, only after one of its
\* network, database or workload steps raised, never for a completed job; and
\* no step removes a container or a network of a completed job.
C13_CleanupTrigger ==
    [][\A j \in DOMAIN JOBS :
          /\ Count(JOBS'[j].log, CleanupLine) <= 1
          /\ pc'[j] \in CleanupLabels =>
                 loc'[j].raised_at \in {"network", "database", "workload", "port"}
          /\ JOBS[j].status = "completed" =>
                 /\ pc'[j] \notin HandlerLabels
                 /\ OwnedBy(containers, j) \subseteq containers'
                 /\ OwnedBy(networks, j) \subseteq networks']_vars

EndsWith(q, tail) ==
    Len(q) >= Len(tail) /\ SubSeq(q, Len(q) - Len(tail) + 1, Len(q)) = tail

\* C14: from the start of the cleanup on the job's status is failed; the
\* worker ends either with 'Cleanup complete.' or, when a list or remove call
\* raised, with the error and the advice to remove the resources by hand as
\* the last lines of the log.
C14_CleanupContained ==
    \A j \in DOMAIN JOBS :
        CleanupLine \in Lines(j) =>
            /\ JOBS[j].status = "failed"
            /\ pc[j] \in {"rm_container", "rm_network", "done"}
            /\ pc[j] = "done" =>
                   \/ Last(JOBS[j].log) = "Cleanup complete."
                   \/ EndsWith(JOBS[j].log, CleanupErrorLines)

\* C14 witness: a removal raised after the database container was created; the
\* worker has stopped and the job's resources are still there
C14_Witness ==
    \E j \in DOMAIN JOBS :
        /\ pc[j] = "done"
        /\ EndsWith(JOBS[j].log, <<"Removing container">> \o CleanupErrorLines)
        /\ Leftover(j) # {}

ConfigLines ==
    {"Configuration Error: the 'docker' package is not installed",
     "Docker Error: Could not connect to Docker daemon."}

Remediation ==
    {"Configuration Error: the 'docker' package is not installed",
     "Please ensure Docker Desktop is installed and running."}

\* C15: once the library is found missing or the ping has failed, the worker
\* only sets failed and stops: the error is logged once with its remedy, no
\* step of the creation begins, the job owns no network and no container, and
\* the cleanup does not run; without the library no worker gets further.
C15_ConfigErrorIsFinal ==
    \A j \in DOMAIN JOBS :
        /\ ~DOCKER_LOADED =>
               pc[j] \in {"start", "check_docker", "config_failed", "done"}
        /\ Lines(j) \cap ConfigLines # {} =>
               /\ pc[j] \in {"config_failed", "done"}
               /\ pc[j] = "done" => JOBS[j].status = "failed"
               /\ Cardinality({i \in DOMAIN JOBS[j].log : JOBS[j].log[i] \in ConfigLines}) = 1
               /\ Lines(j) \cap Remediation # {}
               /\ loc[j].steps = <<>>
               /\ "Starting environment creation..." \notin Lines(j)
               /\ CleanupLine \notin Lines(j)
               /\ Leftover(j) = {}

\* C15 witness: the ping failed and the worker has stopped
C15_Witness ==
    \E j \in DOMAIN JOBS :
        /\ DOCKER_LOADED
        /\ pc[j] = "done"
        /\ JOBS[j].status = "failed"
        /\ "Docker Error: Could not connect to Docker daemon." \in Lines(j)

SameKey(a, b) == a.db_name = b.db_name /\ a.port = b.port

\* the records of envs that have another (db_name, port) than entry
Others(envs, entry) == SelectSeq(envs, LAMBDA e : ~SameKey(e, entry))

\* the same records, each as often, in whatever order
SameRecords(a, b) ==
    /\ Len(a) = Len(b)
    /\ \A r \in Range(a) \cup Range(b) : Count(a, r) = Count(b, r)

NewestFirst(envs) ==
    \A i, k \in DOMAIN envs : i < k => envs[i].created_at >= envs[k].created_at

\* the records a request can ask to record now
Entries ==
    {[db_name |-> name, port |-> port, created_at |-> now] :
        name \in NameInputs, port \in PortInputs}

\* recording entry twice in the file that holds envs gives the list that
\* recording it once gives
Idempotent(envs, entry) ==
    LET once == upsert(SortedDesc(envs), entry)
    IN  upsert(SortedDesc(once), entry) = once

\* what a recording of entry makes of the list before, removed being the
\* number of records it may drop
Recorded(before, after, entry, removed) ==
    /\ Len(before) - Len(Others(before, entry)) \in removed
    /\ Head(after) = entry
    /\ SameRecords(Tail(after), Others(before, entry))
    /\ NewestFirst(Tail(after))

C17_OneRecordPerKey ==
    stderr = {} =>
        \A i, k \in DOMAIN history :
            i # k => ~SameKey(history[i], history[k])

\* C18: a job whose log says that its environment was recorded has its record
\* in the persisted history from then on, also when several workers load,
\* filter and save side by side, as long as no read or write of the file has
\* failed: no worker's save drops the record of another job.
C18_NoLostRecord ==
    stderr = {} =>
        \A j \in DOMAIN JOBS :
            "Recorded environment in history." \in Range(JOBS[j].log) =>
                \E e \in Range(history) :
                    e.db_name = db_name(j) /\ e.port = loc[j].host_port

\* the steps of the history recorder and the two assignments behind it
RecorderPcs == {"hist_load", "hist_filter", "hist_save", "set_completed", "set_url"}

\* C19: recording the history has no bearing on the status of a job.  A read
\* of the file that fails is printed to sys.stderr as "Failed to load env
\* history", a write that fails as "Failed to save env history", and an
\* exception inside the recorder is logged as "Failed to record environment
\* history"; whichever happens, the worker goes on to set status completed
\* and then the url of the environment.  The history is written by a job at
\* its recording step only, and a job that is failed has not been there.
C19_HistoryApart ==
    /\ [][\A j \in DOMAIN JOBS :
            /\ pc[j] = "hist_load" /\ pc'[j] # pc[j] =>
                 /\ pc'[j] = "hist_filter"
                 /\ loc'[j].envs # SortedDesc(history) => LoadFailed \in stderr'
            /\ pc[j] = "hist_filter" /\ pc'[j] # pc[j] =>
                 \/ pc'[j] = "hist_save" /\ JOBS' = JOBS
                 \/ /\ pc'[j] = "set_completed"
                    /\ "Failed to record environment history" \in Range(JOBS'[j].log)
            /\ pc[j] = "hist_save" /\ pc'[j] # pc[j] =>
                 /\ pc'[j] = "set_completed"
                 /\ history' # loc[j].envs => SaveFailed \in stderr'
            /\ pc[j] = "set_completed" /\ pc'[j] # pc[j] =>
                 pc'[j] = "set_url" /\ JOBS'[j].status = "completed"
            /\ pc[j] = "set_url" /\ pc'[j] # pc[j] =>
                 /\ JOBS'[j].status = "completed"
                 /\ JOBS'[j].url = loc[j].url /\ JOBS'[j].url # NoUrl
            /\ pc[j] \in RecorderPcs => JOBS[j].status # "failed"
            /\ JOBS[j].status = "failed" => "history" \notin Range(loc[j].steps)]_vars
    /\ [][history' # history =>
            \E j \in DOMAIN JOBS : pc[j] = "hist_save" /\ pc'[j] = "set_completed"]_vars

\* C19 witness: the write of the history failed, and the job is completed
\* with its url
C19_Witness ==
    \E j \in DOMAIN JOBS :
        /\ SaveFailed \in stderr
        /\ history = <<>>
        /\ "Recorded environment in history." \in Range(JOBS[j].log)
        /\ JOBS[j].status = "completed"
        /\ JOBS[j].url # NoUrl

\* C20: a poll of an id that an accepted submission has returned is never
\* answered not_found, and a poll of any other id is; the entry of a job is in
\* the store when its id is returned and when its worker starts, no entry is
\* ever deleted, and a poll leaves the store as it was.
C20_JobStoreLookup ==
    /\ [](\A id \in Uuids :
            /\ id \in drawn => job_status(id).status # "not_found"
            /\ id \notin drawn => job_status(id).status = "not_found"
            /\ pc[id] # "idle" => id \in DOMAIN JOBS)
    /\ [](lastResp.code = 200 => lastResp.job_id \in DOMAIN JOBS)
    /\ [][/\ DOMAIN JOBS \subseteq DOMAIN JOBS'
          /\ polled' # polled => JOBS' = JOBS
          /\ \A id \in Uuids :
                odoo_job_status(id) => /\ JOBS' = JOBS
                                       /\ id \in drawn <=> polled'.status # "not_found"]_vars

\* C20 witness: a job was polled between the answer to its submission and the
\* start of its worker, and found
C20_Witness ==
    \E id \in DOMAIN JOBS :
        /\ lastResp.job_id = id
        /\ pc[id] = "start"
        /\ polled.status = "pending"

\* C21: once the submission handler has created the entry of job J, its
\* status, log and url change only in a step of J's own worker: in a step
\* that changes the entry, no other worker moves, no submission is answered
\* and no poll is answered, and a submission leaves the entries that exist
\* as they are.
C21_SingleWriter ==
    [][\A J \in DOMAIN JOBS :
          /\ J \in DOMAIN JOBS'
          /\ JOBS'[J] # JOBS[J] =>
                /\ pc'[J] # pc[J] \/ loc'[J] # loc[J]
                /\ \A K \in Uuids \ {J} : pc'[K] = pc[K] /\ loc'[K] = loc[K]
                /\ lastResp' = lastResp
                /\ polled' = polled
                /\ drawn' = drawn]_vars

\* C21 witness: two jobs have run side by side, one to completed and one to
\* failed, and a poll has been answered with the failed one
C21_Witness ==
    \E J, K \in DOMAIN JOBS :
        /\ J # K
        /\ JOBS[J].status = "completed"
        /\ JOBS[K].status = "failed"
        /\ polled.status = "failed"

\* the positions of the worker at the calls that follow a successful probe
RpcPcs == {"inst_auth", "inst_update", "inst_search", "inst_read",
           "inst_install", "inst_apply"}

\* what the calls that follow a successful probe leave in the log
RpcLines ==
    {"Updating Odoo module list to discover mounted addons...",
     "Branding install: failed to authenticate to Odoo XML-RPC (admin).",
     "Branding install authentication error",
     "Module list updated successfully.", "Module list update failed",
     "Module list update locked by scheduled action. Retrying",
     "Installing specified branding modules",
     "Module not found in Odoo. Check module name and addons path.",
     "Error installing branding module",
     "Error installing branding module: Invalid Operation",
     "Error installing branding module: Fault",
     "Module already installed or in progress",
     "Module installation triggered.",
     "Module install locked by scheduled action. Retrying",
     "Attempting to apply branding theme via deployable.brand.apply_theme..."}

NoAnswer == "Branding install: Odoo did not respond to XML-RPC in time."

\* C22: the worker probes the management interface at most 40 times.  A probe
\* that fails is followed by the next probe while fewer than 40 were made;
\* the 40th failure is logged as "did not respond" and ends the worker, and
\* from then on no authenticate, update_list, search, read, install or
\* apply_theme call has been made.  The worker comes to authenticating from
\* a probe that was answered, and from nowhere else.
C22_ProbesBounded ==
    /\ [](\A j \in DOMAIN JOBS :
            /\ loc[j].probes < ProbeAttempts
            /\ NoAnswer \in Range(JOBS[j].log) =>
                  /\ pc[j] = "done"
                  /\ Range(JOBS[j].log) \cap RpcLines = {})
    /\ [][\A j \in DOMAIN JOBS :
            /\ pc[j] = "inst_probe" /\ <<pc[j], loc[j]>>' # <<pc[j], loc[j]>> =>
                 \/ /\ pc'[j] = "inst_auth"
                    /\ JOBS' = JOBS
                 \/ /\ loc[j].probes + 1 < ProbeAttempts
                    /\ pc'[j] = "inst_probe"
                    /\ loc'[j].probes = loc[j].probes + 1
                    /\ JOBS' = JOBS
                 \/ /\ loc[j].probes + 1 = ProbeAttempts
                    /\ pc'[j] = "done"
                    /\ JOBS'[j].log = Append(JOBS[j].log, NoAnswer)
            /\ pc'[j] = "inst_auth" /\ pc[j] # "inst_auth" =>
                 pc[j] = "inst_probe" /\ NoAnswer \notin Range(JOBS'[j].log)
            /\ pc'[j] \in RpcPcs /\ pc[j] \notin RpcPcs => pc'[j] = "inst_auth"]_vars

\* C22 witness: forty probes went unanswered
C22_Witness ==
    \E j \in DOMAIN JOBS :
        /\ NoAnswer \in Range(JOBS[j].log)
        /\ pc[j] = "done"
        /\ JOBS[j].status = "completed"

UpdateLocked == "Module list update locked by scheduled action. Retrying"
UpdateFailed == "Module list update failed"
UpdateDone == "Module list updated successfully."

\* the lines the log of job j gains in a step
Gained(j) == SubSeq(JOBS'[j].log, Len(JOBS[j].log) + 1, Len(JOBS'[j].log))

\* C23: update_list is attempted at most 5 times.  An attempt is followed by
\* another one only when it failed with 'Invalid Operation' and was not the
\* fifth, and then the worker waits 5*k seconds after its k-th attempt; any
\* other end of an attempt, success or failure, leaves the loop.  A failure
\* that leaves the loop is logged as "Module list update failed", the worker
\* goes on to the modules to install, and the job stays completed.
C23_UpdateRetries ==
    /\ [](\A j \in DOMAIN JOBS :
            pc[j] = "inst_update" =>
               /\ loc[j].attempt \in 1 .. max_attempts
               /\ JOBS[j].status = "completed")
    /\ [][\A j \in DOMAIN JOBS :
            pc[j] = "inst_update" /\ <<pc[j], loc[j], JOBS[j]>>' # <<pc[j], loc[j], JOBS[j]>> =>
               /\ JOBS'[j].status = "completed"
               /\ \/ /\ pc'[j] = "inst_update"
                     /\ loc[j].attempt < max_attempts
                     /\ loc'[j].attempt = loc[j].attempt + 1
                     /\ loc'[j].uex = "Invalid Operation"
                     /\ loc'[j].wait_s = 5 * loc[j].attempt
                     /\ Gained(j) = <<UpdateLocked>>
                  \/ /\ pc'[j] \in {"inst_search", "auto_scan"}
                     /\ Head(Gained(j)) \in {UpdateDone, UpdateFailed}
                     /\ Count(JOBS'[j].log, UpdateLocked) < max_attempts]_vars

\* C23 witness: four attempts were locked, the fifth failed, and the worker
\* is at the modules to install
C23_Witness ==
    \E j \in DOMAIN JOBS :
        /\ pc[j] = "inst_search"
        /\ Count(JOBS[j].log, UpdateLocked) = max_attempts - 1
        /\ UpdateFailed \in Range(JOBS[j].log)
        /\ JOBS[j].status = "completed"

\* the positions of the worker at a button_immediate_install call
InstallPcs == {"inst_install", "auto_install"}

\* C24: button_immediate_install is called, for a module named in
\* branding_modules and for a module found in the mounted directories alike,
\* only when the search found the module and the read that came just before
\* gave the state 'uninstalled'; a module in another state, or one that was
\* not found, gets no install call.
C24_InstallGuard ==
    /\ [](\A j \in DOMAIN JOBS :
            pc[j] \in InstallPcs => loc[j].mod_info = "uninstalled")
    /\ [][\A j \in DOMAIN JOBS :
            /\ pc'[j] = "inst_install" /\ pc[j] # "inst_install" =>
                  pc[j] = "inst_read" /\ loc'[j].mod = loc[j].mod
            /\ pc'[j] = "auto_install" /\ pc[j] # "auto_install" =>
                  pc[j] = "auto_read" /\ loc'[j].mod = loc[j].mod
            /\ pc'[j] = "inst_read" /\ pc[j] # "inst_read" =>
                  pc[j] = "inst_search" /\ loc'[j].mod = loc[j].mod
            /\ pc'[j] = "auto_read" /\ pc[j] # "auto_read" =>
                  pc[j] = "auto_search" /\ loc'[j].mod = loc[j].mod
            /\ pc[j] \in {"inst_search", "auto_search"} /\ pc'[j] # pc[j]
               /\ pc'[j] \notin {"inst_read", "auto_read"} =>
                  loc'[j].mod # loc[j].mod /\ pc'[j] \notin InstallPcs
            /\ "Module installation triggered." \in Range(Gained(j)) =>
                  pc[j] = "inst_install"
            /\ "Auto-install triggered for module" \in Range(Gained(j)) =>
                  pc[j] = "auto_install"]_vars

\* C24 witness: of two modules found in the mounted directories, one was
\* not to be installed and one was installed
C24_Witness ==
    \E j \in DOMAIN JOBS :
        /\ "Module state" \in Range(JOBS[j].log)
        /\ "Auto-install triggered for module" \in Range(JOBS[j].log)
        /\ pc[j] = "done"

InstallLocked == "Module install locked by scheduled action. Retrying"

\* C25: an install call that fails with 'Invalid Operation' is tried again,
\* for a module named in branding_modules and for a module found in the
\* mounted directories alike, after 5*k seconds for the k-th attempt, and is
\* given up only at the fifth attempt.
C25_InstallRetries ==
    [][\A j \in DOMAIN JOBS :
          /\ InstallError("Invalid Operation") \in Range(Gained(j)) =>
                pc[j] = "inst_install" /\ loc[j].attempt = max_attempts
          /\ AutoInstallError("Invalid Operation") \in Range(Gained(j)) =>
                pc[j] = "auto_install" /\ loc[j].attempt = max_attempts
          /\ InstallLocked \in Range(Gained(j)) =>
                /\ pc[j] \in InstallPcs /\ pc'[j] = pc[j]
                /\ loc[j].attempt < max_attempts
                /\ loc'[j].attempt = loc[j].attempt + 1
                /\ loc'[j].wait_s = 5 * loc[j].attempt]_vars

\* C26: with every thread scheduled in the end and every call returning,
\* every job that odoo_execute accepted comes to status completed or failed
\* and its worker comes to its end.
C26_EveryJobEnds ==
    \A j \in Uuids :
        (j \in DOMAIN JOBS) ~>
            (/\ j \in DOMAIN JOBS
             /\ JOBS[j].status \in {"completed", "failed"}
             /\ pc[j] = "done")

\* the part of C26 that holds: a job whose 'modules' is a list, or whose host
\* has no local brand module, comes to its end
C26_ListJobsEnd ==
    \A j \in Uuids :
        (j \in DOMAIN JOBS /\ (loc[j].modules_is_list \/ ~local_brand_present)) ~>
            (/\ j \in DOMAIN JOBS
             /\ JOBS[j].status \in {"completed", "failed"}
             /\ pc[j] = "done")

NoRepeat(q) == \A i, k \in DOMAIN q : i # k => q[i] # q[k]

\* C27: the list of modules that the startup command of the workload names
\* after --init= holds no name twice, whatever 'modules', 'website_design'
\* and 'branding_modules' the request gave, lists with repeated names
\* included.
C27_NoDuplicates ==
    \A j \in DOMAIN JOBS :
        pc[j] = "check_docker" => NoRepeat(init_list(j))

\* C30: on a host with the local module 'deployable_brand_theme', the list of
\* modules that the startup command names after --init= does not hold
\* 'deployable_brand_theme', whatever 'modules' and 'branding_modules' the
\* request gave.
C30_ThemeDeferred ==
    \A j \in DOMAIN JOBS :
        pc[j] = "check_docker" /\ local_brand_present =>
            "deployable_brand_theme" \notin Range(init_list(j))


\* the job whose worker removes something in this step
Removes(j) ==
    /\ pc[j] \in {"rm_container", "rm_network"}
    /\ loc[j].todo # <<>>
    /\ loc'[j].todo = Tail(loc[j].todo)

\* C28: the cleanup of a failed job removes only containers and networks
\* that this job created, also when another job whose id agrees with it on
\* the first 8 characters is running at the same time.
C28_NamespaceIsolation ==
    [][\A j \in DOMAIN JOBS :
          Removes(j) =>
              /\ containers \ containers' \subseteq OwnedBy(containers, j)
              /\ networks \ networks' \subseteq OwnedBy(networks, j)]_vars

\* what matches the job's filter and is still there
Matching(j) ==
    {r \in containers \cup networks : matches_filter(name_prefix(j), r.name)}

\* C29: when the removal of one container or network raised during the
\* cleanup, the worker has still attempted every other listed container and
\* network by the time it ends: nothing is left behind the one that raised,
\* and the matching networks were attempted as well.
C29_CleanupContinues ==
    \A j \in DOMAIN JOBS :
        /\ pc[j] = "done"
        /\ \/ EndsWith(JOBS[j].log, <<"Removing container">> \o CleanupErrorLines)
           \/ EndsWith(JOBS[j].log, <<"Removing network">> \o CleanupErrorLines)
        => /\ Len(loc[j].todo) <= 1
           /\ Matching(j) \cap networks # {} => "Removing network" \in Lines(j)

====
